---- MODULE Spec2Model ----
(***************************************************************************)
(* PrepAI mock-interview application: the interview session state machine  *)
(* (src/pages/Interview.tsx), the device-detection sampler                 *)
(* (hooks/useDeviceDetection), the generate-questions and generate-feedback*)
(* edge functions and the interviews/answers tables they write.            *)
(*                                                                         *)
(* JavaScript numbers are modelled as integers (scores) or as integers in  *)
(* tenths (the overall score, which the handler rounds to one decimal);    *)
(* the arithmetic is exact.  undefined and NaN are tagged values.          *)
(***************************************************************************)
EXTENDS Integers, Sequences, FiniteSets, TLC

(***************************************************************************)
(* Program constants.                                                      *)
(***************************************************************************)
NumQuestions == 5
TabSwitchPenalty == 5
DevicePenalty == 10
WarningDebounceMs == 5000
DetectionThreshold == 50
FallbackRelevance == 70
FallbackClarity == 70
FallbackGrammar == 75
FallbackConfidence == 65
ScoreMax == 100
NumFallbackSets == 3
MinLineLength == 10
NumericPrecisionLimit == 100

(***************************************************************************)
(* Bounds of the model.                                                    *)
(***************************************************************************)
MaxEvals == 2
MaxPairs == 2

(***************************************************************************)
(* JavaScript values.                                                      *)
(***************************************************************************)
Num(n) == [t |-> "number", v |-> n]
Undefined == [t |-> "undefined", v |-> 0]
NaN == [t |-> "NaN", v |-> 0]

IsNum(x) == x.t = "number"

\* x || d for a number-or-undefined x: 0, NaN and undefined are falsy.
OrDefault(x, d) == IF IsNum(x) /\ x.v # 0 THEN x ELSE Num(d)

MathMax(a, b) == IF a >= b THEN a ELSE b
MathMin(a, b) == IF a <= b THEN a ELSE b

RECURSIVE SumSeq(_)
SumSeq(s) == IF s = <<>> THEN 0 ELSE Head(s) + SumSeq(Tail(s))

\* Math.round(n / d) for d > 0: the nearest integer, a tie going up.
RoundDiv(n, d) == (2 * n + d) \div (2 * d)

(***************************************************************************)
(* generate-feedback edge function.                                        *)
(* An oracle reply is either unparseable (no bracketed JSON in the content,*)
(* or JSON.parse throws) or an array of elements; an element is null or an *)
(* object whose four score fields are numbers or missing.                  *)
(***************************************************************************)
Unanswered == <<"undefined">>

Evaluation(r, c, g, k, f) ==
    [isObj |-> TRUE, relevance |-> r, clarity |-> c, grammar |-> g,
     confidence |-> k, feedback |-> f]
NullElement ==
    [isObj |-> FALSE, relevance |-> Undefined, clarity |-> Undefined,
     grammar |-> Undefined, confidence |-> Undefined, feedback |-> ""]

UnparseableReply == [kind |-> "unparseable", evals |-> <<>>]
ArrayReply(es) == [kind |-> "array", evals |-> es]

FallbackEvaluation(f) ==
    Evaluation(Num(FallbackRelevance), Num(FallbackClarity),
               Num(FallbackGrammar), Num(FallbackConfidence), f)

\* answersToEvaluate: q.answer || ""
AnswersToEvaluate(questions) ==
    [i \in 1..Len(questions) |->
        [question |-> questions[i].text,
         answer |-> IF questions[i].answer = Unanswered THEN <<>>
                    ELSE questions[i].answer]]

\* the try/catch around JSON.parse
ParseEvaluations(reply, n) ==
    IF reply.kind = "array" THEN reply.evals
    ELSE [i \in 1..n |-> FallbackEvaluation("Good attempt! Consider providing more specific examples.")]

\* while (evaluations.length < answersToEvaluate.length) push(fallback)
PadEvaluations(evals, n) ==
    IF Len(evals) >= n THEN evals
    ELSE evals \o [i \in 1..(n - Len(evals)) |->
                     FallbackEvaluation("Consider elaborating more on your response.")]

\* ClampScore without Math.min and Math.max
ClampScoreUnclamped(x, d) == OrDefault(x, d).v

\* Math.min(100, Math.max(0, x || d)); evaluations[index]?.field is undefined
\* for a null element.
ClampScore(x, d) == MathMin(ScoreMax, MathMax(0, OrDefault(x, d).v))

AnswersToInsert(pairs, evals) ==
    [i \in 1..Len(pairs) |->
        [question |-> pairs[i].question,
         answer |-> pairs[i].answer,
         relevance_score |-> ClampScore(evals[i].relevance, FallbackRelevance),
         clarity_score |-> ClampScore(evals[i].clarity, FallbackClarity),
         grammar_score |-> ClampScore(evals[i].grammar, FallbackGrammar),
         confidence_score |-> ClampScore(evals[i].confidence, FallbackConfidence),
         feedback |-> IF evals[i].feedback = "" THEN "Good effort!"
                      ELSE evals[i].feedback]]

\* e.relevance on a null element throws a TypeError.
ReduceThrows(evals) == \E i \in 1..Len(evals) : ~evals[i].isObj

\* a missing field makes the sum NaN.
ReduceIsNaN(evals) ==
    \E i \in 1..Len(evals) :
        ~(IsNum(evals[i].relevance) /\ IsNum(evals[i].clarity)
          /\ IsNum(evals[i].grammar) /\ IsNum(evals[i].confidence))

\* 4 * (the reduce's sum of the per-evaluation averages)
ScoreSum4(evals) ==
    SumSeq([i \in 1..Len(evals) |->
        evals[i].relevance.v + evals[i].clarity.v
        + evals[i].grammar.v + evals[i].confidence.v])

\* At a tie 2n/d is odd and the mean is (2n/d)/20, which binary floating point
\* holds exactly only if that odd number is a multiple of 5.
TieIsExact(n, d) == ((2 * n) \div d) % 5 = 0

\* Math.round(n / d) in binary floating point: as RoundDiv, except that a tie
\* whose mean is not held exactly may sit below the half after the
\* multiplication by 10, and then goes down (tieUp = FALSE).
RoundDivFloat(n, d, tieUp) ==
    IF (2 * n) % (2 * d) = d /\ ~TieIsExact(n, d) /\ ~tieUp
    THEN RoundDiv(n, d) - 1 ELSE RoundDiv(n, d)

\* OverallScore10 without the floor at 0
OverallScoreNoFloor(evals, scorePenalty, tieUp) ==
    LET den == 4 * Len(evals)
    IN  IF ReduceIsNaN(evals) THEN NaN
        ELSE Num(RoundDivFloat(10 * (ScoreSum4(evals) - scorePenalty * den), den, tieUp))

\* overall_score of the update, in tenths: the mean is ScoreSum4 / (4 * length);
\* the penalty is subtracted, and the result floored at 0, only if it is > 0.
OverallScore10(evals, scorePenalty, tieUp) ==
    LET den == 4 * Len(evals)
        num == ScoreSum4(evals) - scorePenalty * den
        pen == IF scorePenalty > 0 THEN MathMax(0, num) ELSE ScoreSum4(evals)
    IN  IF ReduceIsNaN(evals) THEN NaN
        ELSE Num(RoundDivFloat(10 * pen, den, tieUp))

(***************************************************************************)
(* The answers and interviews tables: the score columns are NUMERIC(4,2),  *)
(* which reject a value whose absolute value is 100 or more.               *)
(***************************************************************************)
FitsNumeric(v) == -NumericPrecisionLimit < v /\ v < NumericPrecisionLimit
FitsNumeric10(v10) ==
    -(10 * NumericPrecisionLimit) < v10 /\ v10 < 10 * NumericPrecisionLimit

RowFits(row) ==
    /\ FitsNumeric(row.relevance_score) /\ FitsNumeric(row.clarity_score)
    /\ FitsNumeric(row.grammar_score) /\ FitsNumeric(row.confidence_score)

\* overall_score NaN is serialised as null, which the column accepts.
OverallFits(o) == ~IsNum(o) \/ FitsNumeric10(o.v)

(***************************************************************************)
(* The whole generate-feedback handler on one request: the oracle's HTTP   *)
(* status and reply, a fault of the database (none, insert, update) and    *)
(* the rounding of a tie are the environment's choices.                    *)
(*   status : the handler's HTTP status                                    *)
(*   rows   : the answer records inserted (<<>> if the insert did not run  *)
(*            or failed)                                                   *)
(*   built  : the answer records the handler built (answersToInsert)       *)
(*   updated: whether the interview was updated, and overall its score     *)
(***************************************************************************)
NoOverall == Undefined

FeedbackResult(st, built, rows, updated, overall) ==
    [status |-> st, built |-> built, rows |-> rows, updated |-> updated,
     overall |-> overall]

ServeFeedback(questions, scorePenalty, oracleStatus, reply, dbFault, tieUp) ==
    LET pairs == AnswersToEvaluate(questions)
        evals == PadEvaluations(ParseEvaluations(reply, Len(pairs)), Len(pairs))
        rows == AnswersToInsert(pairs, evals)
        insertOk == dbFault # "insert" /\ \A i \in 1..Len(rows) : RowFits(rows[i])
        overall == OverallScore10(evals, scorePenalty, tieUp)
        updateOk == dbFault # "update" /\ OverallFits(overall)
    IN  IF oracleStatus = 429 \/ oracleStatus = 402
        THEN FeedbackResult(oracleStatus, <<>>, <<>>, FALSE, NoOverall)
        ELSE IF oracleStatus # 200
        THEN FeedbackResult(500, <<>>, <<>>, FALSE, NoOverall)
        ELSE IF ~insertOk
        THEN FeedbackResult(500, rows, <<>>, FALSE, NoOverall)
        ELSE IF ReduceThrows(evals)
        THEN FeedbackResult(500, rows, rows, FALSE, NoOverall)
        ELSE IF ~updateOk
        THEN FeedbackResult(500, rows, rows, FALSE, overall)
        ELSE FeedbackResult(200, rows, rows, TRUE, overall)

(***************************************************************************)
(* generate-questions edge function.                                       *)
(* A text is a sequence of characters.  The oracle's content either holds  *)
(* a bracketed span that JSON.parse accepts (an array of elements: strings *)
(* or other JSON values), a bracketed span that JSON.parse rejects, or no  *)
(* bracketed span at all (plain lines of text).                            *)
(***************************************************************************)
Str(chars) == [t |-> "string", s |-> chars]
NonString(tag) == [t |-> tag, s |-> <<>>]

JsonArrayContent(elems) == [kind |-> "array", elems |-> elems, lines |-> <<>>]
BadJsonContent == [kind |-> "badjson", elems |-> <<>>, lines |-> <<>>]
TextContent(lines) == [kind |-> "text", elems |-> <<>>, lines |-> lines]

Digits == {"0", "1", "2", "3", "4", "5", "6", "7", "8", "9"}
Whitespace == {" "}

RECURSIVE TrimStart(_)
TrimStart(s) ==
    IF s # <<>> /\ Head(s) \in Whitespace THEN TrimStart(Tail(s)) ELSE s

RECURSIVE TrimEnd(_)
TrimEnd(s) ==
    IF s # <<>> /\ s[Len(s)] \in Whitespace
    THEN TrimEnd(SubSeq(s, 1, Len(s) - 1)) ELSE s

\* String.prototype.trim
Trim(s) == TrimEnd(TrimStart(s))

RECURSIVE DropDigits(_)
DropDigits(s) ==
    IF s # <<>> /\ Head(s) \in Digits THEN DropDigits(Tail(s)) ELSE s

\* q.replace(/^\d+\.\s*/, "")
StripNumbering(q) ==
    LET rest == DropDigits(q)
    IN  IF q # <<>> /\ Head(q) \in Digits /\ rest # <<>> /\ Head(rest) = "."
        THEN TrimStart(Tail(rest)) ELSE q

\* q.replace(/^[-*]\s*/, "")
StripBullet(q) ==
    IF q # <<>> /\ Head(q) \in {"-", "*"} THEN TrimStart(Tail(q)) ELSE q

RECURSIVE FilterLong(_)
FilterLong(lines) ==
    IF lines = <<>> THEN <<>>
    ELSE IF Len(Trim(Head(lines))) > MinLineLength
         THEN <<Head(lines)>> \o FilterLong(Tail(lines))
         ELSE FilterLong(Tail(lines))

Slice5(s) == SubSeq(s, 1, MathMin(Len(s), NumQuestions))

\* content.split("\n").filter(...).slice(0, 5).map(...)
SplitLines(lines) ==
    LET kept == Slice5(FilterLong(lines))
    IN  [i \in 1..Len(kept) |-> Str(Trim(StripBullet(StripNumbering(kept[i]))))]

\* fallbackSets; a fixed text of the program is kept as one piece.
FallbackSets ==
    [k \in 0..(NumFallbackSets - 1) |->
        CASE k = 0 -> << Str(<<"What drew you to this career path?">>),
                         Str(<<"Describe your approach to solving complex problems.">>),
                         Str(<<"How do you prioritize competing deadlines?">>),
                         Str(<<"Tell me about a time you led a team.">>),
                         Str(<<"What's your biggest professional achievement?">>) >>
          [] k = 1 -> << Str(<<"What excites you most about this role?">>),
                         Str(<<"How do you handle constructive criticism?">>),
                         Str(<<"Describe a project that challenged you.">>),
                         Str(<<"How do you stay updated with industry trends?">>),
                         Str(<<"What would you change about your last project?">>) >>
          [] OTHER -> << Str(<<"Why are you passionate about this field?">>),
                         Str(<<"How do you approach learning new skills?">>),
                         Str(<<"Tell me about a failure and what you learned.">>),
                         Str(<<"How do you collaborate with remote teams?">>),
                         Str(<<"What metrics do you use to measure success?">>) >>]
FillerQuestion == Str(<<"What unique perspective would you bring to our team?">>)

\* the try/catch: a JSON array, the line split, or a canned set chosen by the seed
ParseQuestions(content, randomSeed) ==
    IF content.kind = "array" THEN content.elems
    ELSE IF content.kind = "text" THEN SplitLines(content.lines)
    ELSE FallbackSets[randomSeed % NumFallbackSets]

\* while (questions.length < 5) push(filler); questions.slice(0, 5)
EnsureFive(questions) ==
    Slice5(IF Len(questions) >= NumQuestions THEN questions
           ELSE questions \o [i \in 1..(NumQuestions - Len(questions)) |-> FillerQuestion])

QuestionsResult(st, qs) == [status |-> st, questions |-> qs]

\* The whole handler: the oracle's status maps to 429, 402 or 500, and a
\* success to the five questions.
ServeQuestions(oracleStatus, content, randomSeed) ==
    IF oracleStatus = 429 \/ oracleStatus = 402
    THEN QuestionsResult(oracleStatus, <<>>)
    ELSE IF oracleStatus # 200 THEN QuestionsResult(500, <<>>)
    ELSE QuestionsResult(200, EnsureFive(ParseQuestions(content, randomSeed)))

(***************************************************************************)
(* Device detection (useDeviceDetection).  A frame is the list of the      *)
(* detector's predictions; a score is in percent.                          *)
(***************************************************************************)
Prediction(label, score) == [label |-> label, score |-> score]

\* A label is a string, kept as its characters; a missing label is "".
UpperLetters ==
    <<"A", "B", "C", "D", "E", "F", "G", "H", "I", "J", "K", "L", "M",
      "N", "O", "P", "Q", "R", "S", "T", "U", "V", "W", "X", "Y", "Z">>
LowerLetters ==
    <<"a", "b", "c", "d", "e", "f", "g", "h", "i", "j", "k", "l", "m",
      "n", "o", "p", "q", "r", "s", "t", "u", "v", "w", "x", "y", "z">>

\* String.prototype.toLowerCase
ToLowerCase(s) ==
    [i \in 1..Len(s) |->
        IF \E k \in 1..Len(UpperLetters) : UpperLetters[k] = s[i]
        THEN LowerLetters[CHOOSE k \in 1..Len(UpperLetters) : UpperLetters[k] = s[i]]
        ELSE s[i]]

\* String.prototype.includes
Includes(s, sub) ==
    \E k \in 0..(Len(s) - Len(sub)) : SubSeq(s, k + 1, k + Len(sub)) = sub

\* SUSPICIOUS_OBJECTS
SuspiciousLabels ==
    { <<"c", "e", "l", "l", " ", "p", "h", "o", "n", "e">>,
      <<"m", "o", "b", "i", "l", "e", " ", "p", "h", "o", "n", "e">>,
      <<"b", "o", "o", "k">>,
      <<"l", "a", "p", "t", "o", "p">>,
      <<"r", "e", "m", "o", "t", "e">>,
      <<"t", "a", "b", "l", "e", "t">>,
      <<"c", "o", "m", "p", "u", "t", "e", "r">> }

\* the filter without its test of the score
IsSuspiciousAnyScore(pred) ==
    \E obj \in SuspiciousLabels : Includes(ToLowerCase(pred.label), obj)

\* SUSPICIOUS_OBJECTS.some(obj => label.includes(obj)) && pred.score > 0.5
IsSuspicious(pred) ==
    /\ \E obj \in SuspiciousLabels : Includes(ToLowerCase(pred.label), obj)
    /\ pred.score > DetectionThreshold

RECURSIVE SuspiciousItems(_)
SuspiciousItems(frame) ==
    IF frame = <<>> THEN <<>>
    ELSE IF IsSuspicious(Head(frame))
         THEN <<Head(frame)>> \o SuspiciousItems(Tail(frame))
         ELSE SuspiciousItems(Tail(frame))

\* [...new Set(items.map(i => i.label))] with the score of the first such item
RECURSIVE DeviceEntries(_, _, _)
DeviceEntries(items, seen, ts) ==
    IF items = <<>> THEN <<>>
    ELSE IF Head(items).label \in seen THEN DeviceEntries(Tail(items), seen, ts)
    ELSE <<[class |-> Head(items).label, score |-> Head(items).score, timestamp |-> ts]>>
         \o DeviceEntries(Tail(items), seen \cup {Head(items).label}, ts)

\* the debounce with >= in place of >
DebounceInclusive(nowMs, lastMs) == nowMs - lastMs >= WarningDebounceMs

\* now - lastWarningTimeRef.current > 5000
DebouncePassed(nowMs, lastMs) == nowMs - lastMs > WarningDebounceMs

(***************************************************************************)
(* State.                                                                  *)
(***************************************************************************)
VARIABLES
    \* Interview component (useState)
    step, selectedRole, questions, currentQuestion, currentAnswer,
    isGenerating, interviewId, cameraEnabled, cameraStream,
    tabSwitchCount, showTabWarning, scorePenalty,
    \* the last destructive toast of a catch block around functions.invoke
    errorToast,
    \* the last toast of startCamera: "none", "enabled" or "denied"
    cameraToast,
    \* useDeviceDetection (useState / useRef)
    isModelLoaded, isDetecting, detectedDevices, deviceWarningCount,
    showDeviceWarning, detector, detectionInterval, lastWarningTime,
    \* the browser: the route shown, Date.now(), streams and intervals no
    \* reference holds any more, and the pending asynchronous work
    page, now, leakedStreams, leakedIntervals,
    modelLoading, cameraCalls, timers, inflight, generateCall,
    \* requests and responses in flight, and each handler's latest run
    questionsReq, questionsRes, feedbackReq, feedbackRes,
    lastQuestions, lastFeedback,
    \* the database, and the number of feedback requests sent so far
    interviews, answers, submissions

componentVars ==
    <<step, selectedRole, questions, currentQuestion, currentAnswer,
      isGenerating, interviewId, cameraEnabled, cameraStream,
      tabSwitchCount, showTabWarning, scorePenalty, errorToast, cameraToast>>
detectionVars ==
    <<isModelLoaded, isDetecting, detectedDevices, deviceWarningCount,
      showDeviceWarning, detector, detectionInterval, lastWarningTime>>
browserVars ==
    <<page, now, leakedStreams, leakedIntervals, modelLoading, cameraCalls,
      timers, inflight, generateCall>>
networkVars ==
    <<questionsReq, questionsRes, feedbackReq, feedbackRes, lastQuestions,
      lastFeedback>>
dbVars == <<interviews, answers, submissions>>
vars == <<componentVars, detectionVars, browserVars, networkVars, dbVars>>

(***************************************************************************)
(* Bounds of the session model.                                            *)
(***************************************************************************)
MaxTicks == 3
MaxTabSwitches == 2
MaxDeviceWarnings == 2
MaxInterviews == 1
MaxSubmissions == 2
MaxCameraCalls == 2
MaxInflight == 1
MaxLeaks == 1

TickMs == WarningDebounceMs \div 2
\* Date.now() when the page is opened: far above the debounce window.
Epoch == 2 * WarningDebounceMs

Roles == {"software-engineer"}
NetworkError == 0
OracleStatuses == {200, 429, 402, 503}
DbFaults == {"none", "insert", "update"}

Mounted == page = "interview"

NoRequest == [active |-> FALSE, role |-> "", interviewId |-> 0, questions |-> <<>>,
              scorePenalty |-> 0, tabSwitchCount |-> 0, deviceWarningCount |-> 0]
NoResponse == [active |-> FALSE, status |-> 0, questions |-> <<>>]
NoRun == [done |-> FALSE, request |-> NoRequest, oracle |-> 0, fault |-> "none",
          reply |-> UnparseableReply,
          result |-> FeedbackResult(0, <<>>, <<>>, FALSE, NoOverall)]
NoQuestionsRun ==
    [done |-> FALSE, oracle |-> 0, content |-> BadJsonContent, seed |-> 0,
     result |-> QuestionsResult(0, <<>>)]

\* the closure of startDetection that a call of startCamera carries
Closure(fromGenerate) ==
    [isModelLoaded |-> isModelLoaded, isDetecting |-> isDetecting,
     fromGenerate |-> fromGenerate]
IdleCall == [pc |-> "idle", isModelLoaded |-> FALSE, isDetecting |-> FALSE]

RemoveAt(seq, i) == SubSeq(seq, 1, i - 1) \o SubSeq(seq, i + 1, Len(seq))

\* A destructive toast shown by a catch block: the HTTP status of the failed
\* invoke (NetworkError if there was none) and the description shown.
ErrorToast(status, description) ==
    [shown |-> TRUE, status |-> status, description |-> description]
NoToast == [shown |-> FALSE, status |-> NetworkError, description |-> ""]

\* The descriptions of the catch blocks of generateQuestions and
\* submitInterview: the error caught is logged and not looked at.
GenerateErrorDescription(status) == "Failed to generate questions. Please try again."
SubmitErrorDescription(status) == "Failed to submit interview. Please try again."

\* The Interview component after its first render.
InitComponent ==
    /\ step = "role" /\ selectedRole = "" /\ questions = <<>>
    /\ currentQuestion = 0 /\ currentAnswer = <<>>
    /\ isGenerating = FALSE /\ interviewId = 0
    /\ cameraEnabled = FALSE /\ cameraStream = FALSE
    /\ tabSwitchCount = 0 /\ showTabWarning = FALSE /\ scorePenalty = 0
    /\ errorToast = NoToast /\ cameraToast = "none"

\* useDeviceDetection and the browser after the first render: loadModel has
\* been called and has not settled.
InitDetection ==
    /\ isModelLoaded = FALSE /\ isDetecting = FALSE /\ detectedDevices = <<>>
    /\ deviceWarningCount = 0 /\ showDeviceWarning = FALSE
    /\ detector = FALSE /\ detectionInterval = FALSE /\ lastWarningTime = 0
    /\ page = "interview" /\ now = Epoch
    /\ leakedStreams = 0 /\ leakedIntervals = 0
    /\ modelLoading = TRUE /\ cameraCalls = <<>> /\ timers = <<>>
    /\ inflight = <<>> /\ generateCall = IdleCall

Init ==
    /\ InitComponent /\ InitDetection
    /\ questionsReq = NoRequest /\ questionsRes = NoResponse
    /\ feedbackReq = NoRequest /\ feedbackRes = NoResponse
    /\ lastQuestions = NoQuestionsRun /\ lastFeedback = NoRun
    /\ interviews = <<>> /\ answers = <<>> /\ submissions = 0

(***************************************************************************)
(* Effects of the Interview component.                                     *)
(***************************************************************************)
\* The effect on [deviceWarningCount, step]: it runs when either changes and
\* adds the device penalty if the count is positive and the step "interview".
PenaltyEffect(penalty, newStep, newCount) ==
    IF (newStep # step \/ newCount # deviceWarningCount)
       /\ newCount > 0 /\ newStep = "interview"
    THEN penalty + DevicePenalty ELSE penalty

\* stopCamera followed by stopDetection
StopCamera ==
    /\ cameraStream' = FALSE
    /\ cameraEnabled' = FALSE
    /\ detectionInterval' = FALSE
    /\ isDetecting' = FALSE

\* Unmounting runs the cleanups: the held stream's tracks are stopped and the
\* interval of detectionIntervalRef is cleared.
Unmount ==
    /\ cameraStream' = FALSE
    /\ detectionInterval' = FALSE

(***************************************************************************)
(* Role selection and question generation (generateQuestions).             *)
(***************************************************************************)
SelectRole(r) ==
    /\ Mounted /\ step = "role"
    /\ selectedRole' = r
    /\ UNCHANGED <<step, questions, currentQuestion, currentAnswer, isGenerating,
                   interviewId, cameraEnabled, cameraStream, tabSwitchCount,
                   showTabWarning, scorePenalty, errorToast, cameraToast>>
    /\ UNCHANGED <<detectionVars, browserVars, networkVars, dbVars>>

NewInterview(role) ==
    [role |-> role, status |-> "in_progress", overall_score |-> Num(0), updates |-> 0]

\* The click up to the invoke of generate-questions: the interview record is
\* inserted first; if the insert fails the catch and finally blocks run.
GenerateClick(insertOk) ==
    /\ Mounted /\ step = "role" /\ selectedRole # "" /\ ~isGenerating
    /\ generateCall.pc = "idle"
    /\ Len(interviews) < MaxInterviews
    /\ IF insertOk
       THEN /\ interviews' = Append(interviews, NewInterview(selectedRole))
            /\ interviewId' = Len(interviews) + 1
            /\ isGenerating' = TRUE
            /\ generateCall' = [pc |-> "invoke", isModelLoaded |-> isModelLoaded,
                                isDetecting |-> isDetecting]
            /\ questionsReq' = [NoRequest EXCEPT !.active = TRUE, !.role = selectedRole]
            /\ UNCHANGED errorToast
       ELSE /\ errorToast' = ErrorToast(NetworkError, GenerateErrorDescription(NetworkError))
            /\ UNCHANGED <<interviews, interviewId, isGenerating, generateCall, questionsReq>>
    /\ UNCHANGED <<step, selectedRole, questions, currentQuestion, currentAnswer,
                   cameraEnabled, cameraStream, tabSwitchCount, showTabWarning,
                   scorePenalty, cameraToast>>
    /\ UNCHANGED <<detectionVars, page, now, leakedStreams, leakedIntervals,
                   modelLoading, cameraCalls, timers, inflight>>
    /\ UNCHANGED <<questionsRes, feedbackReq, feedbackRes, lastQuestions, lastFeedback,
                   answers, submissions>>

\* The generate-questions handler on the request in flight; the response may be
\* lost on its way back.
QuestionsHandler(oracleStatus, content, randomSeed, delivered) ==
    /\ questionsReq.active
    /\ \E res \in {ServeQuestions(oracleStatus, content, randomSeed)} :
           /\ lastQuestions' = [done |-> TRUE, oracle |-> oracleStatus,
                                content |-> content, seed |-> randomSeed,
                                result |-> res]
           /\ questionsRes' =
                IF delivered
                THEN [active |-> TRUE, status |-> res.status, questions |-> res.questions]
                ELSE [active |-> TRUE, status |-> NetworkError, questions |-> <<>>]
    /\ questionsReq' = NoRequest
    /\ UNCHANGED <<componentVars, detectionVars, browserVars, dbVars>>
    /\ UNCHANGED <<feedbackReq, feedbackRes, lastFeedback>>

\* The request never reaches the handler.
QuestionsRequestLost ==
    /\ questionsReq.active
    /\ questionsReq' = NoRequest
    /\ questionsRes' = [active |-> TRUE, status |-> NetworkError, questions |-> <<>>]
    /\ UNCHANGED <<componentVars, detectionVars, browserVars, dbVars>>
    /\ UNCHANGED <<feedbackReq, feedbackRes, lastQuestions, lastFeedback>>

\* generateQuestions after the invoke: on an error the catch and finally blocks;
\* on success setQuestions, setStep("interview") and the call of startCamera,
\* which waits for getUserMedia.
GenerateReturn ==
    /\ questionsRes.active /\ generateCall.pc = "invoke"
    /\ questionsRes' = NoResponse
    /\ IF questionsRes.status = 200
       THEN /\ generateCall' = [generateCall EXCEPT !.pc = "camera"]
            /\ cameraCalls' = Append(cameraCalls,
                 [isModelLoaded |-> generateCall.isModelLoaded,
                  isDetecting |-> generateCall.isDetecting, fromGenerate |-> TRUE])
            /\ IF Mounted
               THEN /\ questions' = [i \in 1..Len(questionsRes.questions) |->
                         [text |-> questionsRes.questions[i], answer |-> Unanswered]]
                    /\ step' = "interview"
                    /\ scorePenalty' = PenaltyEffect(scorePenalty, "interview", deviceWarningCount)
               ELSE UNCHANGED <<questions, step, scorePenalty>>
            /\ UNCHANGED <<isGenerating, errorToast>>
       ELSE /\ generateCall' = IdleCall
            /\ isGenerating' = FALSE
            /\ errorToast' = ErrorToast(questionsRes.status,
                                        GenerateErrorDescription(questionsRes.status))
            /\ UNCHANGED <<cameraCalls, questions, step, scorePenalty>>
    /\ UNCHANGED <<selectedRole, currentQuestion, currentAnswer, interviewId,
                   cameraEnabled, cameraStream, tabSwitchCount, showTabWarning,
                   cameraToast>>
    /\ UNCHANGED <<detectionVars, page, now, leakedStreams, leakedIntervals,
                   modelLoading, timers, inflight>>
    /\ UNCHANGED <<questionsReq, feedbackReq, feedbackRes, lastQuestions, lastFeedback>>
    /\ UNCHANGED dbVars

(***************************************************************************)
(* Camera (startCamera, stopCamera) and detection (useDeviceDetection).    *)
(***************************************************************************)
\* loadModel settles: isModelLoaded is set whether or not the pipeline loaded.
LoadModelDone(ok) ==
    /\ modelLoading
    /\ modelLoading' = FALSE
    /\ detector' = ok
    /\ isModelLoaded' = IF Mounted THEN TRUE ELSE isModelLoaded
    /\ UNCHANGED <<isDetecting, detectedDevices, deviceWarningCount, showDeviceWarning,
                   detectionInterval, lastWarningTime>>
    /\ UNCHANGED <<page, now, leakedStreams, leakedIntervals, cameraCalls, timers,
                   inflight, generateCall>>
    /\ UNCHANGED <<componentVars, networkVars, dbVars>>

\* The Start button of the camera card: startCamera up to getUserMedia.
StartCameraClick ==
    /\ Mounted /\ step = "interview" /\ Len(questions) > 0 /\ ~cameraEnabled
    /\ Len(cameraCalls) + Len(timers) < MaxCameraCalls
    /\ leakedIntervals < MaxLeaks
    /\ cameraCalls' = Append(cameraCalls, Closure(FALSE))
    /\ UNCHANGED <<page, now, leakedStreams, leakedIntervals, modelLoading, timers,
                   inflight, generateCall>>
    /\ UNCHANGED <<componentVars, detectionVars, networkVars, dbVars>>

\* a startCamera whose setTimeout(startDetection) sits after the try block
CameraResolveAlwaysArms(i, granted) ==
    /\ i \in 1..Len(cameraCalls)
    /\ cameraCalls' = RemoveAt(cameraCalls, i)
    /\ timers' = Append(timers, cameraCalls[i])
    /\ IF granted
       THEN /\ IF Mounted
               THEN /\ cameraStream' = TRUE /\ cameraEnabled' = TRUE
                    /\ UNCHANGED leakedStreams
               ELSE /\ leakedStreams' = leakedStreams + 1
                    /\ UNCHANGED <<cameraStream, cameraEnabled>>
       ELSE UNCHANGED <<cameraStream, cameraEnabled, leakedStreams>>
    /\ IF cameraCalls[i].fromGenerate
       THEN /\ generateCall' = IdleCall
            /\ isGenerating' = FALSE
       ELSE UNCHANGED <<generateCall, isGenerating>>
    /\ cameraToast' = IF granted THEN "enabled" ELSE "denied"
    /\ UNCHANGED <<step, selectedRole, errorToast, questions, currentQuestion, currentAnswer,
                   interviewId, tabSwitchCount, showTabWarning, scorePenalty>>
    /\ UNCHANGED <<page, now, leakedIntervals, modelLoading, inflight>>
    /\ UNCHANGED <<detectionVars, networkVars, dbVars>>

\* getUserMedia settles for the i-th pending call of startCamera.  Granted: the
\* stream replaces the held one (whose tracks the cleanup of the cameraStream
\* effect stops) and startDetection is scheduled; after an unmount no state is
\* set and nothing ever stops the stream.  Denied: the catch block.
CameraResolve(i, granted) ==
    /\ i \in 1..Len(cameraCalls)
    /\ cameraCalls' = RemoveAt(cameraCalls, i)
    /\ IF granted
       THEN /\ timers' = Append(timers, cameraCalls[i])
            /\ IF Mounted
               THEN /\ cameraStream' = TRUE /\ cameraEnabled' = TRUE
                    /\ UNCHANGED leakedStreams
               ELSE /\ leakedStreams' = leakedStreams + 1
                    /\ UNCHANGED <<cameraStream, cameraEnabled>>
       ELSE UNCHANGED <<timers, cameraStream, cameraEnabled, leakedStreams>>
    /\ IF cameraCalls[i].fromGenerate
       THEN /\ generateCall' = IdleCall
            /\ isGenerating' = FALSE
       ELSE UNCHANGED <<generateCall, isGenerating>>
    /\ cameraToast' = IF granted THEN "enabled" ELSE "denied"
    /\ UNCHANGED <<step, selectedRole, errorToast, questions, currentQuestion, currentAnswer,
                   interviewId, tabSwitchCount, showTabWarning, scorePenalty>>
    /\ UNCHANGED <<page, now, leakedIntervals, modelLoading, inflight>>
    /\ UNCHANGED <<detectionVars, networkVars, dbVars>>

\* a startDetection that does not test detectorRef.current
DetectionTimerNoDetectorTest(i) ==
    /\ i \in 1..Len(timers)
    /\ timers' = RemoveAt(timers, i)
    /\ IF ~timers[i].isModelLoaded \/ timers[i].isDetecting
       THEN UNCHANGED <<isDetecting, detectionInterval, leakedIntervals>>
       ELSE /\ isDetecting' = IF Mounted THEN TRUE ELSE isDetecting
            /\ detectionInterval' = TRUE
            /\ leakedIntervals' = IF detectionInterval THEN leakedIntervals + 1
                                  ELSE leakedIntervals
    /\ UNCHANGED <<isModelLoaded, detectedDevices, deviceWarningCount, showDeviceWarning,
                   detector, lastWarningTime>>
    /\ UNCHANGED <<page, now, leakedStreams, modelLoading, cameraCalls, inflight,
                   generateCall>>
    /\ UNCHANGED <<componentVars, networkVars, dbVars>>

\* The timeout of startCamera fires: startDetection, with the isModelLoaded and
\* isDetecting of the render that created it.  An interval already in
\* detectionIntervalRef is overwritten and keeps running.
DetectionTimer(i) ==
    /\ i \in 1..Len(timers)
    /\ timers' = RemoveAt(timers, i)
    /\ IF ~timers[i].isModelLoaded \/ timers[i].isDetecting \/ ~detector
       THEN UNCHANGED <<isDetecting, detectionInterval, leakedIntervals>>
       ELSE /\ isDetecting' = IF Mounted THEN TRUE ELSE isDetecting
            /\ detectionInterval' = TRUE
            /\ leakedIntervals' = IF detectionInterval THEN leakedIntervals + 1
                                  ELSE leakedIntervals
    /\ UNCHANGED <<isModelLoaded, detectedDevices, deviceWarningCount, showDeviceWarning,
                   detector, lastWarningTime>>
    /\ UNCHANGED <<page, now, leakedStreams, modelLoading, cameraCalls, inflight,
                   generateCall>>
    /\ UNCHANGED <<componentVars, networkVars, dbVars>>

\* The Stop button of the camera card.
StopCameraClick ==
    /\ Mounted /\ step = "interview" /\ Len(questions) > 0 /\ cameraEnabled
    /\ StopCamera
    /\ UNCHANGED <<step, selectedRole, errorToast, cameraToast, questions, currentQuestion, currentAnswer,
                   isGenerating, interviewId, tabSwitchCount, showTabWarning,
                   scorePenalty>>
    /\ UNCHANGED <<isModelLoaded, detectedDevices, deviceWarningCount, showDeviceWarning,
                   detector, lastWarningTime>>
    /\ UNCHANGED <<browserVars, networkVars, dbVars>>

\* "Back to Home": stopCamera, then navigate("/") unmounts the component.
BackHome ==
    /\ Mounted
    /\ StopCamera
    /\ page' = "home"
    /\ UNCHANGED <<step, selectedRole, errorToast, cameraToast, questions, currentQuestion, currentAnswer,
                   isGenerating, interviewId, tabSwitchCount, showTabWarning,
                   scorePenalty>>
    /\ UNCHANGED <<isModelLoaded, detectedDevices, deviceWarningCount, showDeviceWarning,
                   detector, lastWarningTime>>
    /\ UNCHANGED <<now, leakedStreams, leakedIntervals, modelLoading, cameraCalls,
                   timers, inflight, generateCall>>
    /\ UNCHANGED <<networkVars, dbVars>>

\* Date.now() advances.  The clock is read only by a detection that is about
\* to finish, so it is advanced only while one is in flight.
Tick ==
    /\ inflight # <<>>
    /\ now < Epoch + MaxTicks * TickMs
    /\ now' = now + TickMs
    /\ UNCHANGED <<page, leakedStreams, leakedIntervals, modelLoading, cameraCalls,
                   timers, inflight, generateCall>>
    /\ UNCHANGED <<componentVars, detectionVars, networkVars, dbVars>>

\* What the detector will answer for a captured frame: its predictions, or an
\* exception.
Capture(failed, frame) == [failed |-> failed, predictions |-> frame]

\* An interval calls detectObjects, which passes its guards (a detector, and a
\* video element, rendered only in the interview step with the camera enabled),
\* captures the frame and waits for the detector.
IntervalTick(failed, frame) ==
    /\ detectionInterval \/ leakedIntervals > 0
    /\ detector /\ Mounted /\ step = "interview" /\ cameraEnabled
    /\ Len(inflight) < MaxInflight
    /\ inflight' = Append(inflight, Capture(failed, frame))
    /\ UNCHANGED <<page, now, leakedStreams, leakedIntervals, modelLoading,
                   cameraCalls, timers, generateCall>>
    /\ UNCHANGED <<componentVars, detectionVars, networkVars, dbVars>>

\* a detectObjects that goes on after the detector has thrown
RaisesWarningDespiteError(capture, nowMs, lastMs) ==
    /\ SuspiciousItems(capture.predictions) # <<>>
    /\ DebouncePassed(nowMs, lastMs)

\* Whether detectObjects raises a warning for the detector's answer.
RaisesWarning(capture, nowMs, lastMs) ==
    /\ ~capture.failed
    /\ SuspiciousItems(capture.predictions) # <<>>
    /\ DebouncePassed(nowMs, lastMs)

\* The detector answers (or throws) for the i-th detection in flight and
\* detectObjects finishes; the penalty effect of the Interview component
\* follows the new count.
DetectionComplete(i) ==
    /\ i \in 1..Len(inflight)
    /\ inflight' = RemoveAt(inflight, i)
    /\ LET items == SuspiciousItems(inflight[i].predictions)
       IN  IF RaisesWarning(inflight[i], now, lastWarningTime)
           THEN /\ deviceWarningCount < MaxDeviceWarnings
                /\ lastWarningTime' = now
                /\ IF Mounted
                   THEN /\ detectedDevices' =
                             detectedDevices \o DeviceEntries(items, {}, now)
                        /\ deviceWarningCount' = deviceWarningCount + 1
                        /\ showDeviceWarning' = TRUE
                        /\ scorePenalty' =
                             PenaltyEffect(scorePenalty, step, deviceWarningCount + 1)
                   ELSE UNCHANGED <<detectedDevices, deviceWarningCount,
                                    showDeviceWarning, scorePenalty>>
           ELSE UNCHANGED <<lastWarningTime, detectedDevices, deviceWarningCount,
                            showDeviceWarning, scorePenalty>>
    /\ UNCHANGED <<step, selectedRole, errorToast, cameraToast, questions, currentQuestion, currentAnswer,
                   isGenerating, interviewId, cameraEnabled, cameraStream,
                   tabSwitchCount, showTabWarning>>
    /\ UNCHANGED <<isModelLoaded, isDetecting, detector, detectionInterval>>
    /\ UNCHANGED <<page, now, leakedStreams, leakedIntervals, modelLoading,
                   cameraCalls, timers, generateCall>>
    /\ UNCHANGED <<networkVars, dbVars>>

\* a dismissWarning that also clears the count
DismissDeviceWarningResets ==
    /\ Mounted /\ showDeviceWarning
    /\ showDeviceWarning' = FALSE
    /\ deviceWarningCount' = 0
    /\ UNCHANGED <<isModelLoaded, isDetecting, detectedDevices,
                   detector, detectionInterval, lastWarningTime>>
    /\ UNCHANGED <<componentVars, browserVars, networkVars, dbVars>>

\* dismissWarning
DismissDeviceWarning ==
    /\ Mounted /\ showDeviceWarning
    /\ showDeviceWarning' = FALSE
    /\ UNCHANGED <<isModelLoaded, isDetecting, detectedDevices, deviceWarningCount,
                   detector, detectionInterval, lastWarningTime>>
    /\ UNCHANGED <<componentVars, browserVars, networkVars, dbVars>>

(***************************************************************************)
(* The question loop, the proctoring penalties and the submission.         *)
(***************************************************************************)
\* a listener attached in every step
VisibilityHiddenAnyStep ==
    /\ Mounted
    /\ tabSwitchCount < MaxTabSwitches
    /\ tabSwitchCount' = tabSwitchCount + 1
    /\ scorePenalty' = scorePenalty + TabSwitchPenalty
    /\ showTabWarning' = TRUE
    /\ UNCHANGED <<step, selectedRole, errorToast, cameraToast, questions, currentQuestion,
                   currentAnswer, isGenerating, interviewId, cameraEnabled, cameraStream>>
    /\ UNCHANGED <<detectionVars, browserVars, networkVars, dbVars>>

\* A visibilitychange event with document.hidden: the listener is attached
\* only while step is "interview".
VisibilityHidden ==
    /\ Mounted
    /\ IF step = "interview"
       THEN /\ tabSwitchCount < MaxTabSwitches
            /\ tabSwitchCount' = tabSwitchCount + 1
            /\ scorePenalty' = scorePenalty + TabSwitchPenalty
            /\ showTabWarning' = TRUE
       ELSE UNCHANGED <<tabSwitchCount, scorePenalty, showTabWarning>>
    /\ UNCHANGED <<step, selectedRole, errorToast, cameraToast, questions, currentQuestion, currentAnswer,
                   isGenerating, interviewId, cameraEnabled, cameraStream>>
    /\ UNCHANGED <<detectionVars, browserVars, networkVars, dbVars>>

DismissTabWarning ==
    /\ Mounted /\ showTabWarning
    /\ showTabWarning' = FALSE
    /\ UNCHANGED <<step, selectedRole, errorToast, cameraToast, questions, currentQuestion, currentAnswer,
                   isGenerating, interviewId, cameraEnabled, cameraStream,
                   tabSwitchCount, scorePenalty>>
    /\ UNCHANGED <<detectionVars, browserVars, networkVars, dbVars>>

\* The answer box (typed or dictated).
TypeAnswer(text) ==
    /\ Mounted /\ step = "interview" /\ Len(questions) > 0
    /\ currentAnswer' = text
    /\ UNCHANGED <<step, selectedRole, errorToast, cameraToast, questions, currentQuestion, isGenerating,
                   interviewId, cameraEnabled, cameraStream, tabSwitchCount,
                   showTabWarning, scorePenalty>>
    /\ UNCHANGED <<detectionVars, browserVars, networkVars, dbVars>>

\* The body of the generate-feedback request of submitInterview.
FeedbackRequest(finalQuestions) ==
    [active |-> TRUE, role |-> selectedRole, interviewId |-> interviewId,
     questions |-> finalQuestions, scorePenalty |-> scorePenalty,
     tabSwitchCount |-> tabSwitchCount, deviceWarningCount |-> deviceWarningCount]

\* a handleNext whose button is also rendered while step is submitting
HandleNextWhileSubmitting ==
    /\ Mounted /\ step \in {"interview", "submitting"} /\ Len(questions) > 0
    /\ Trim(currentAnswer) # <<>>
    /\ LET updatedQuestions ==
               [questions EXCEPT ![currentQuestion + 1].answer = currentAnswer]
       IN  /\ questions' = updatedQuestions
           /\ IF currentQuestion < Len(questions) - 1
              THEN /\ currentQuestion' = currentQuestion + 1
                   /\ currentAnswer' = <<>>
                   /\ UNCHANGED <<step, cameraEnabled, cameraStream, isDetecting,
                                  detectionInterval, feedbackReq, submissions,
                                  scorePenalty>>
              ELSE /\ submissions < MaxSubmissions
                   /\ step' = "submitting"
                   /\ StopCamera
                   /\ feedbackReq' = FeedbackRequest(updatedQuestions)
                   /\ submissions' = submissions + 1
                   /\ scorePenalty' =
                        PenaltyEffect(scorePenalty, "submitting", deviceWarningCount)
                   /\ UNCHANGED <<currentQuestion, currentAnswer>>
    /\ UNCHANGED <<selectedRole, errorToast, cameraToast, isGenerating, interviewId, tabSwitchCount,
                   showTabWarning>>
    /\ UNCHANGED <<isModelLoaded, detectedDevices, deviceWarningCount, showDeviceWarning,
                   detector, lastWarningTime>>
    /\ UNCHANGED <<browserVars, questionsReq, questionsRes, feedbackRes,
                   lastQuestions, lastFeedback, interviews, answers>>

\* a handleNext whose button is never disabled
HandleNextBlankAllowed ==
    /\ Mounted /\ step = "interview" /\ Len(questions) > 0
    /\ LET updatedQuestions ==
               [questions EXCEPT ![currentQuestion + 1].answer = currentAnswer]
       IN  /\ questions' = updatedQuestions
           /\ IF currentQuestion < Len(questions) - 1
              THEN /\ currentQuestion' = currentQuestion + 1
                   /\ currentAnswer' = <<>>
                   /\ UNCHANGED <<step, cameraEnabled, cameraStream, isDetecting,
                                  detectionInterval, feedbackReq, submissions,
                                  scorePenalty>>
              ELSE /\ submissions < MaxSubmissions
                   /\ step' = "submitting"
                   /\ StopCamera
                   /\ feedbackReq' = FeedbackRequest(updatedQuestions)
                   /\ submissions' = submissions + 1
                   /\ scorePenalty' =
                        PenaltyEffect(scorePenalty, "submitting", deviceWarningCount)
                   /\ UNCHANGED <<currentQuestion, currentAnswer>>
    /\ UNCHANGED <<selectedRole, errorToast, cameraToast, isGenerating, interviewId, tabSwitchCount,
                   showTabWarning>>
    /\ UNCHANGED <<isModelLoaded, detectedDevices, deviceWarningCount, showDeviceWarning,
                   detector, lastWarningTime>>
    /\ UNCHANGED <<browserVars, questionsReq, questionsRes, feedbackRes,
                   lastQuestions, lastFeedback, interviews, answers>>

\* handleNext: the button is disabled while the answer is blank.  On the last
\* question it runs submitInterview up to the invoke of generate-feedback.
HandleNext ==
    /\ Mounted /\ step = "interview" /\ Len(questions) > 0
    /\ Trim(currentAnswer) # <<>>
    /\ LET updatedQuestions ==
               [questions EXCEPT ![currentQuestion + 1].answer = currentAnswer]
       IN  /\ questions' = updatedQuestions
           /\ IF currentQuestion < Len(questions) - 1
              THEN /\ currentQuestion' = currentQuestion + 1
                   /\ currentAnswer' = <<>>
                   /\ UNCHANGED <<step, cameraEnabled, cameraStream, isDetecting,
                                  detectionInterval, feedbackReq, submissions,
                                  scorePenalty>>
              ELSE /\ submissions < MaxSubmissions
                   /\ step' = "submitting"
                   /\ StopCamera
                   /\ feedbackReq' = FeedbackRequest(updatedQuestions)
                   /\ submissions' = submissions + 1
                   /\ scorePenalty' =
                        PenaltyEffect(scorePenalty, "submitting", deviceWarningCount)
                   /\ UNCHANGED <<currentQuestion, currentAnswer>>
    /\ UNCHANGED <<selectedRole, errorToast, cameraToast, isGenerating, interviewId, tabSwitchCount,
                   showTabWarning>>
    /\ UNCHANGED <<isModelLoaded, detectedDevices, deviceWarningCount, showDeviceWarning,
                   detector, lastWarningTime>>
    /\ UNCHANGED <<browserVars, questionsReq, questionsRes, feedbackRes,
                   lastQuestions, lastFeedback, interviews, answers>>

\* The rows of one insert, and the update of the interview.
InsertedRows(id, rows) ==
    [i \in 1..Len(rows) |->
        [interview_id |-> id, question |-> rows[i].question, answer |-> rows[i].answer,
         relevance_score |-> rows[i].relevance_score,
         clarity_score |-> rows[i].clarity_score,
         grammar_score |-> rows[i].grammar_score,
         confidence_score |-> rows[i].confidence_score,
         feedback |-> rows[i].feedback]]

\* .update({overall_score, status: "completed", completed_at}).eq("id", id)
UpdateInterview(table, id, overall) ==
    [i \in 1..Len(table) |->
        IF i = id
        THEN [table[i] EXCEPT !.status = "completed", !.overall_score = overall,
                              !.updates = @ + 1]
        ELSE table[i]]

\* The generate-feedback handler on the request in flight; the response may be
\* lost on its way back.
FeedbackHandler(oracleStatus, reply, dbFault, tieUp, delivered) ==
    /\ feedbackReq.active
    /\ \E res \in {ServeFeedback(feedbackReq.questions, feedbackReq.scorePenalty,
                                   oracleStatus, reply, dbFault, tieUp)} :
           /\ lastFeedback' = [done |-> TRUE, request |-> feedbackReq,
                               oracle |-> oracleStatus,
                               fault |-> IF oracleStatus = 200 THEN dbFault ELSE "none",
                               reply |-> IF oracleStatus = 200 THEN reply
                                         ELSE UnparseableReply,
                               result |-> res]
           /\ answers' = answers \o InsertedRows(feedbackReq.interviewId, res.rows)
           /\ interviews' = IF res.updated
                            THEN UpdateInterview(interviews, feedbackReq.interviewId,
                                                 res.overall)
                            ELSE interviews
           /\ feedbackRes' =
                [active |-> TRUE, questions |-> <<>>,
                 status |-> IF delivered THEN res.status ELSE NetworkError]
    /\ feedbackReq' = NoRequest
    /\ UNCHANGED <<componentVars, detectionVars, browserVars>>
    /\ UNCHANGED <<questionsReq, questionsRes, lastQuestions, submissions>>

\* The request never reaches the handler.
FeedbackRequestLost ==
    /\ feedbackReq.active
    /\ feedbackReq' = NoRequest
    /\ feedbackRes' = [active |-> TRUE, status |-> NetworkError, questions |-> <<>>]
    /\ UNCHANGED <<componentVars, detectionVars, browserVars, dbVars>>
    /\ UNCHANGED <<questionsReq, questionsRes, lastQuestions, lastFeedback>>

\* a catch block that sends the session back to the role selection
SubmitCatchRole == "role"

\* a catch block that leaves the step as it is
SubmitCatchStays == "submitting"

\* The step the catch block of submitInterview sets.
SubmitCatchStep == "interview"

\* submitInterview after the invoke: navigate to the feedback page, or the catch
\* block's setStep.
SubmitReturn ==
    /\ feedbackRes.active
    /\ feedbackRes' = NoResponse
    /\ IF feedbackRes.status = 200
       THEN /\ page' = "feedback"
            /\ Unmount
            /\ UNCHANGED <<step, scorePenalty, errorToast>>
       ELSE /\ step' = IF Mounted THEN SubmitCatchStep ELSE step
            /\ errorToast' = ErrorToast(feedbackRes.status,
                                        SubmitErrorDescription(feedbackRes.status))
            /\ scorePenalty' = IF Mounted
                               THEN PenaltyEffect(scorePenalty, SubmitCatchStep,
                                                  deviceWarningCount)
                               ELSE scorePenalty
            /\ UNCHANGED <<page, cameraStream, detectionInterval>>
    /\ UNCHANGED <<selectedRole, cameraToast, questions, currentQuestion, currentAnswer,
                   isGenerating, interviewId, cameraEnabled, tabSwitchCount,
                   showTabWarning>>
    /\ UNCHANGED <<isModelLoaded, isDetecting, detectedDevices, deviceWarningCount,
                   showDeviceWarning, detector, lastWarningTime>>
    /\ UNCHANGED <<now, leakedStreams, leakedIntervals, modelLoading, cameraCalls,
                   timers, inflight, generateCall>>
    /\ UNCHANGED <<questionsReq, questionsRes, feedbackReq, lastQuestions,
                   lastFeedback, dbVars>>

(***************************************************************************)
(* The environment's inputs of the session model.                          *)
(***************************************************************************)
AnswerTexts == {<<"a">>, <<" ">>}

Uniform(v) == Evaluation(Num(v), Num(v), Num(v), Num(v), "tip")
Repeat(e, n) == [i \in 1..n |-> e]

SessionStatuses == {200, 429}
SessionFaults == {"none", "update"}
SessionReplies == { ArrayReply(Repeat(Uniform(80), NumQuestions)) }

DigitChar == <<"1", "2", "3", "4", "5", "6", "7", "8", "9">>
QuestionText(i) == Str(<<"Q", DigitChar[i]>>)

SessionContents ==
    { JsonArrayContent([i \in 1..NumQuestions |-> QuestionText(i)]) }

\* Labels of the classes of the detector (Xenova/detr-resnet-50, the COCO classes).
CellPhone == <<"c", "e", "l", "l", " ", "p", "h", "o", "n", "e">>
Book == <<"b", "o", "o", "k">>
Laptop == <<"l", "a", "p", "t", "o", "p">>
Person == <<"p", "e", "r", "s", "o", "n">>

SessionFrames ==
    { <<>>, <<Prediction(CellPhone, 90)>> }

Next ==
    \/ \E r \in Roles : SelectRole(r)
    \/ \E ok \in BOOLEAN : GenerateClick(ok)
    \/ \E st \in SessionStatuses, c \in SessionContents, d \in BOOLEAN :
          QuestionsHandler(st, c, 0, d)
    \/ QuestionsRequestLost
    \/ GenerateReturn
    \/ \E ok \in BOOLEAN : LoadModelDone(ok)
    \/ \E i \in 1..Len(cameraCalls), g \in BOOLEAN : CameraResolve(i, g)
    \/ \E i \in 1..Len(timers) : DetectionTimer(i)
    \/ Tick
    \/ \E failed \in BOOLEAN, f \in SessionFrames : IntervalTick(failed, f)
    \/ \E i \in 1..Len(inflight) : DetectionComplete(i)
    \/ DismissDeviceWarning
    \/ VisibilityHidden
    \/ DismissTabWarning
    \/ \E a \in AnswerTexts : TypeAnswer(a)
    \/ HandleNext
    \/ \E st \in SessionStatuses, r \in SessionReplies, f \in SessionFaults,
          d \in BOOLEAN : FeedbackHandler(st, r, f, TRUE, d)
    \/ FeedbackRequestLost
    \/ SubmitReturn

Spec == Init /\ [][Next]_vars

(***************************************************************************)
(* The generate-feedback handler alone, on requests and oracle replies     *)
(* drawn from bounded sets.                                                *)
(***************************************************************************)
BaseEvaluation == Evaluation(Num(80), Num(80), Num(80), Num(81), "tip")
OutOfRange == {-20, 130}

EvaluationElements ==
    {BaseEvaluation, NullElement}
    \cup {Uniform(v) : v \in {0, ScoreMax} \cup OutOfRange}
    \cup {[BaseEvaluation EXCEPT !.confidence = Num(v)] : v \in {130}}
    \cup {[BaseEvaluation EXCEPT !.relevance = Undefined, !.feedback = ""]}

FeedbackReplies ==
    {UnparseableReply}
    \cup {ArrayReply(es) : es \in UNION {[1..n -> EvaluationElements] : n \in 0..MaxEvals}}

RequestPenalties == {0, 15, 120}

\* n questions, the last one without an answer
RequestQuestions(n) ==
    [i \in 1..n |-> [text |-> QuestionText(i),
                     answer |-> IF i = n THEN Unanswered ELSE <<"a">>]]

FeedbackRequests ==
    {[active |-> TRUE, role |-> "software-engineer", interviewId |-> 1,
      questions |-> RequestQuestions(n), scorePenalty |-> p,
      tabSwitchCount |-> 0, deviceWarningCount |-> 0] :
        n \in 1..MaxPairs, p \in RequestPenalties}

InitFeedback ==
    /\ InitComponent /\ InitDetection
    /\ questionsReq = NoRequest /\ questionsRes = NoResponse
    /\ feedbackReq \in FeedbackRequests /\ feedbackRes = NoResponse
    /\ lastQuestions = NoQuestionsRun /\ lastFeedback = NoRun
    /\ interviews = <<NewInterview("software-engineer")>>
    /\ answers = <<>> /\ submissions = 1

NextFeedback ==
    \/ \E st \in OracleStatuses \ {200} :
          FeedbackHandler(st, UnparseableReply, "none", TRUE, TRUE)
    \/ \E r \in FeedbackReplies, f \in DbFaults, up \in BOOLEAN :
          FeedbackHandler(200, r, f, up, TRUE)

SpecFeedback == InitFeedback /\ [][NextFeedback]_vars

(***************************************************************************)
(* The generate-questions handler alone.                                   *)
(***************************************************************************)
MaxElements == 6
MaxLines == 2
MaxSeed == 3

QuestionElements ==
    {QuestionText(1), Str(<<>>), NonString("number")}

QuestionLines ==
    { <<"1", ".", " ", "W", "h", "y", " ", "t", "h", "i", "s", " ", "r", "o", "l", "e", "?">>,
      <<"-", " ", "D", "e", "s", "c", "r", "i", "b", "e", " ", "a", " ", "b", "u", "g">>,
      <<" ", " ", "2", ".", " ", "Y", "o", "u", "r", " ", "g", "o", "a", "l", "s", "?">>,
      <<"1", "2", "3", "4", "5", "6", "7", "8", "9", "0", ".">>,
      <<"t", "o", "o", " ", "s", "h", "o", "r", "t">>,
      <<>> }

QuestionContents ==
    {BadJsonContent}
    \cup {JsonArrayContent(es) :
            es \in UNION {[1..n -> QuestionElements] : n \in 0..MaxElements}}
    \cup {TextContent(ls) :
            ls \in UNION {[1..n -> QuestionLines] : n \in 1..MaxLines}}

InitQuestions ==
    /\ InitComponent /\ InitDetection
    /\ questionsReq = [NoRequest EXCEPT !.active = TRUE, !.role = "software-engineer"]
    /\ questionsRes = NoResponse
    /\ feedbackReq = NoRequest /\ feedbackRes = NoResponse
    /\ lastQuestions = NoQuestionsRun /\ lastFeedback = NoRun
    /\ interviews = <<NewInterview("software-engineer")>>
    /\ answers = <<>> /\ submissions = 0

NextQuestions ==
    \/ \E st \in OracleStatuses \ {200} :
          QuestionsHandler(st, BadJsonContent, 0, TRUE)
    \/ \E c \in QuestionContents \ {BadJsonContent} :
          QuestionsHandler(200, c, 0, TRUE)
    \/ \E seed \in 0..MaxSeed : QuestionsHandler(200, BadJsonContent, seed, TRUE)

SpecQuestions == InitQuestions /\ [][NextQuestions]_vars

(***************************************************************************)
(* The camera and the sampler alone: a session is generated, and the user  *)
(* starts and stops the camera or leaves the page while getUserMedia, the  *)
(* detection timeout and the detections settle in any order.               *)
(***************************************************************************)
NextCamera ==
    \/ \E r \in Roles : SelectRole(r)
    \/ GenerateClick(TRUE)
    \/ \E c \in SessionContents : QuestionsHandler(200, c, 0, TRUE)
    \/ GenerateReturn
    \/ \E ok \in BOOLEAN : LoadModelDone(ok)
    \/ StartCameraClick
    \/ StopCameraClick
    \/ BackHome
    \/ \E i \in 1..Len(cameraCalls), g \in BOOLEAN : CameraResolve(i, g)
    \/ \E i \in 1..Len(timers) : DetectionTimer(i)
    \/ Tick
    \/ \E f \in SessionFrames : IntervalTick(FALSE, f)
    \/ \E i \in 1..Len(inflight) : DetectionComplete(i)
    \/ DismissDeviceWarning

SpecCamera == Init /\ [][NextCamera]_vars

(***************************************************************************)
(* The sampler when the camera is never stopped: no stop button, no        *)
(* submission, no leaving the page.  Promises settle and timeouts fire:    *)
(* the model load, getUserMedia, the generate-questions invoke and the     *)
(* detection timeout are weakly fair.                                      *)
(***************************************************************************)
NextSampler ==
    \/ \E r \in Roles : SelectRole(r)
    \/ GenerateClick(TRUE)
    \/ \E c \in SessionContents : QuestionsHandler(200, c, 0, TRUE)
    \/ GenerateReturn
    \/ \E ok \in BOOLEAN : LoadModelDone(ok)
    \/ StartCameraClick
    \/ \E i \in 1..Len(cameraCalls), g \in BOOLEAN : CameraResolve(i, g)
    \/ \E i \in 1..Len(timers) : DetectionTimer(i)
    \/ Tick
    \/ \E f \in SessionFrames : IntervalTick(FALSE, f)
    \/ \E i \in 1..Len(inflight) : DetectionComplete(i)
    \/ DismissDeviceWarning
    \/ \E a \in AnswerTexts : TypeAnswer(a)

SpecSampler ==
    /\ Init /\ [][NextSampler]_vars
    /\ WF_vars(\E c \in SessionContents : QuestionsHandler(200, c, 0, TRUE))
    /\ WF_vars(GenerateReturn)
    /\ WF_vars(\E ok \in BOOLEAN : LoadModelDone(ok))
    /\ WF_vars(\E i \in 1..Len(cameraCalls), g \in BOOLEAN : CameraResolve(i, g))
    /\ WF_vars(\E i \in 1..Len(timers) : DetectionTimer(i))

(***************************************************************************)
(* The session when every network request returns: each functions.invoke   *)
(* that was sent is answered or fails, and the awaiting client code then    *)
(* resumes.  getUserMedia is no network request: it stays pending for as    *)
(* long as the user leaves the permission prompt unanswered.  The sampler   *)
(* and the visibility handler, which change neither the step nor the calls  *)
(* in progress, are left out.                                               *)
(***************************************************************************)
NextLive ==
    \/ \E r \in Roles : SelectRole(r)
    \/ \E ok \in BOOLEAN : GenerateClick(ok)
    \/ \E st \in SessionStatuses, c \in SessionContents, d \in BOOLEAN :
          QuestionsHandler(st, c, 0, d)
    \/ QuestionsRequestLost
    \/ GenerateReturn
    \/ \E ok \in BOOLEAN : LoadModelDone(ok)
    \/ \E i \in 1..Len(cameraCalls), g \in BOOLEAN : CameraResolve(i, g)
    \/ \E i \in 1..Len(timers) : DetectionTimer(i)
    \/ \E a \in AnswerTexts : TypeAnswer(a)
    \/ HandleNext
    \/ \E st \in SessionStatuses, r \in SessionReplies, f \in SessionFaults,
          d \in BOOLEAN : FeedbackHandler(st, r, f, TRUE, d)
    \/ FeedbackRequestLost
    \/ SubmitReturn

SpecLive ==
    /\ Init /\ [][NextLive]_vars
    /\ WF_vars(\/ QuestionsRequestLost
               \/ \E st \in SessionStatuses, c \in SessionContents, d \in BOOLEAN :
                     QuestionsHandler(st, c, 0, d))
    /\ WF_vars(GenerateReturn)
    /\ WF_vars(\/ FeedbackRequestLost
               \/ \E st \in SessionStatuses, r \in SessionReplies,
                     f \in SessionFaults, d \in BOOLEAN :
                     FeedbackHandler(st, r, f, TRUE, d))
    /\ WF_vars(SubmitReturn)

(***************************************************************************)
(* The sampler on its own: the session up to the question loop with the    *)
(* camera and the model, and then the interval, whose classifications      *)
(* succeed or throw, over frames with labels inside and outside the        *)
(* vocabulary and scores below, at and above the threshold.                *)
(***************************************************************************)
DetectionFrames ==
    { <<>>,
      <<Prediction(Person, 99)>>,
      <<Prediction(CellPhone, DetectionThreshold)>>,
      <<Prediction(CellPhone, 90)>>,
      <<Prediction(Book, 30), Prediction(Laptop, 80), Prediction(Person, 95),
        Prediction(Laptop, 60), Prediction(CellPhone, 70)>> }

NextDetection ==
    \/ \E r \in Roles : SelectRole(r)
    \/ GenerateClick(TRUE)
    \/ \E c \in SessionContents : QuestionsHandler(200, c, 0, TRUE)
    \/ GenerateReturn
    \/ \E ok \in BOOLEAN : LoadModelDone(ok)
    \/ \E i \in 1..Len(cameraCalls), g \in BOOLEAN : CameraResolve(i, g)
    \/ \E i \in 1..Len(timers) : DetectionTimer(i)
    \/ Tick
    \/ \E failed \in BOOLEAN, f \in DetectionFrames : IntervalTick(failed, f)
    \/ \E i \in 1..Len(inflight) : DetectionComplete(i)
    \/ DismissDeviceWarning

SpecDetection == Init /\ [][NextDetection]_vars

(***************************************************************************)
(* Properties of the generate-feedback handler (SpecFeedback).             *)
(***************************************************************************)
\* The evaluations the last run of the handler averaged.
LastEvaluations ==
    PadEvaluations(ParseEvaluations(lastFeedback.reply, Len(lastFeedback.request.questions)),
                   Len(lastFeedback.request.questions))

InRange(x) == IsNum(x) /\ 0 <= x.v /\ x.v <= ScoreMax

InRangeEvaluations(evals) ==
    \A i \in 1..Len(evals) :
        /\ evals[i].isObj
        /\ InRange(evals[i].relevance) /\ InRange(evals[i].clarity)
        /\ InRange(evals[i].grammar) /\ InRange(evals[i].confidence)

\* the sum of all sub-scores of a list of evaluations
RECURSIVE SubScoreTotal(_)
SubScoreTotal(evals) ==
    IF evals = <<>> THEN 0
    ELSE Head(evals).relevance.v + Head(evals).clarity.v + Head(evals).grammar.v
         + Head(evals).confidence.v + SubScoreTotal(Tail(evals))

\* v10 tenths is x = max(0, total / count - penalty) rounded to one decimal:
\* |v10 / 10 - x| <= 1/20, with count > 0
IsRoundedScore(v10, total, count, penalty) ==
    LET target == IF total - penalty * count > 0 THEN total - penalty * count ELSE 0
        diff == v10 * count - 10 * target
    IN  2 * diff <= count /\ -2 * diff <= count

\* C2: for N >= 1 evaluations with all sub-scores in [0,100] and a penalty
\* P >= 0, the overall score the handler writes is max(0, mean of the
\* per-evaluation means - P) rounded to one decimal place, and is in [0,100].
C2_OverallScoreIsPenalisedMean ==
    (lastFeedback.done /\ lastFeedback.result.updated
     /\ InRangeEvaluations(LastEvaluations))
    => /\ IsNum(lastFeedback.result.overall)
       /\ IsRoundedScore(lastFeedback.result.overall.v,
                         SubScoreTotal(LastEvaluations), 4 * Len(LastEvaluations),
                         lastFeedback.request.scorePenalty)
       /\ 0 <= lastFeedback.result.overall.v
       /\ lastFeedback.result.overall.v <= 10 * ScoreMax
       /\ interviews[lastFeedback.request.interviewId].overall_score
            = lastFeedback.result.overall

\* a run subtracted a positive penalty from the mean of two or more in-range
\* evaluations and wrote a positive score
C2_Witness ==
    /\ lastFeedback.done /\ lastFeedback.result.updated
    /\ InRangeEvaluations(LastEvaluations)
    /\ Len(LastEvaluations) >= 2
    /\ lastFeedback.request.scorePenalty > 0
    /\ lastFeedback.result.overall.v > 0
    /\ lastFeedback.result.overall.v * 4 * Len(LastEvaluations)
         < 10 * SubScoreTotal(LastEvaluations)

\* C5: for N question/answer pairs and any successful oracle reply the handler
\* builds exactly N answer records, the i-th for the i-th pair, and every
\* sub-score in them is in [0,100].
C5_AnswerRecordsMatchInput ==
    (lastFeedback.done /\ lastFeedback.oracle = 200)
    => LET qs == lastFeedback.request.questions
           built == lastFeedback.result.built
       IN  /\ Len(built) = Len(qs)
           /\ \A i \in 1..Len(qs) :
                /\ built[i].question = qs[i].text
                /\ built[i].answer = (IF qs[i].answer = Unanswered THEN <<>>
                                      ELSE qs[i].answer)
                /\ built[i].relevance_score \in 0..ScoreMax
                /\ built[i].clarity_score \in 0..ScoreMax
                /\ built[i].grammar_score \in 0..ScoreMax
                /\ built[i].confidence_score \in 0..ScoreMax

\* a reply shorter than the input whose scores were above 100 has been clamped
\* and padded
C5_Witness ==
    /\ lastFeedback.done /\ lastFeedback.oracle = 200
    /\ lastFeedback.reply.kind = "array"
    /\ Len(lastFeedback.reply.evals) = 1
    /\ Len(lastFeedback.request.questions) = 2
    /\ lastFeedback.reply.evals[1].relevance.v > ScoreMax
    /\ lastFeedback.result.built[1].relevance_score = ScoreMax
    /\ lastFeedback.result.built[2].relevance_score = FallbackRelevance

\* C6: whatever sub-scores the oracle's reply holds and whatever the penalty
\* (0 included), the overall score the handler writes is in [0,100].
C6_PersistedOverallInRange ==
    (lastFeedback.done /\ lastFeedback.result.updated)
    => /\ IsNum(interviews[lastFeedback.request.interviewId].overall_score)
       /\ 0 <= interviews[lastFeedback.request.interviewId].overall_score.v
       /\ interviews[lastFeedback.request.interviewId].overall_score.v <= 10 * ScoreMax

(***************************************************************************)
(* Properties of the generate-questions handler (SpecQuestions).           *)
(***************************************************************************)
\* C4: for a successful oracle reply of any content the handler returns
\* exactly 5 elements, each a non-empty string.
C4_FiveNonEmptyStrings ==
    (lastQuestions.done /\ lastQuestions.oracle = 200)
    => /\ lastQuestions.result.status = 200
       /\ Len(lastQuestions.result.questions) = NumQuestions
       /\ \A i \in 1..NumQuestions :
            /\ lastQuestions.result.questions[i].t = "string"
            /\ lastQuestions.result.questions[i].s # <<>>

(***************************************************************************)
(* Properties of the interview session (Spec).                             *)
(***************************************************************************)
\* C1: in every reachable state of a session the accumulated penalty is
\* 5 * tabSwitchCount + 10 * deviceWarningCount.
C1_PenaltyMatchesCounts ==
    scorePenalty = TabSwitchPenalty * tabSwitchCount + DevicePenalty * deviceWarningCount

\* C3: when a session is completed, the penalty subtracted from the mean is
\* exactly 5 * tab switches + 10 * device warnings, so that the score written
\* is the mean less that amount (2 switches, 1 warning, mean 80: 60.0).
C3_CompletedPenaltyIsExact ==
    (lastFeedback.done /\ lastFeedback.result.updated)
    => LET owed == TabSwitchPenalty * lastFeedback.request.tabSwitchCount
                   + DevicePenalty * lastFeedback.request.deviceWarningCount
       IN  /\ lastFeedback.request.scorePenalty = owed
           /\ IsNum(lastFeedback.result.overall)
           /\ IsRoundedScore(lastFeedback.result.overall.v,
                             SubScoreTotal(LastEvaluations), 4 * Len(LastEvaluations),
                             owed)

\* C7 as stated: a suspicious frame less than 5 seconds after the last warning
\* raises nothing and changes no counter; one 5 seconds or more after it
\* (exactly 5 seconds included) raises a warning and increments
\* deviceWarningCount.
C7_DebounceFiveSecondsOrMore ==
    [][\A i \in 1..Len(inflight) :
         (/\ inflight' = RemoveAt(inflight, i) /\ Mounted
          /\ ~inflight[i].failed /\ SuspiciousItems(inflight[i].predictions) # <<>>)
         => IF now - lastWarningTime < WarningDebounceMs
            THEN /\ deviceWarningCount' = deviceWarningCount
                 /\ lastWarningTime' = lastWarningTime
            ELSE /\ deviceWarningCount' = deviceWarningCount + 1
                 /\ lastWarningTime' = now]_vars

\* C7 amended: a suspicious frame 5 seconds or less after the last warning
\* (exactly 5 seconds included) raises nothing and changes no counter; one
\* strictly more than 5 seconds after it raises a warning and increments
\* deviceWarningCount.
C7_DebounceStrictlyMoreThanFiveSeconds ==
    [][\A i \in 1..Len(inflight) :
         (/\ inflight' = RemoveAt(inflight, i) /\ Mounted
          /\ ~inflight[i].failed /\ SuspiciousItems(inflight[i].predictions) # <<>>)
         => IF now - lastWarningTime <= WarningDebounceMs
            THEN /\ deviceWarningCount' = deviceWarningCount
                 /\ lastWarningTime' = lastWarningTime
                 /\ detectedDevices' = detectedDevices
                 /\ scorePenalty' = scorePenalty
                 /\ showDeviceWarning' = showDeviceWarning
            ELSE /\ deviceWarningCount' = deviceWarningCount + 1
                 /\ lastWarningTime' = now
                 /\ showDeviceWarning']_vars

\* two warnings more than 5 seconds apart have been raised
C7_Witness ==
    /\ deviceWarningCount = 2
    /\ Len(detectedDevices) = 2
    /\ detectedDevices[2].timestamp - detectedDevices[1].timestamp > WarningDebounceMs
    /\ lastWarningTime = detectedDevices[2].timestamp

\* C8: after a failed question generation the session is in the role
\* selection and the store holds no interview record: a record exists only
\* once the 5 questions of its session have been obtained.
C8_NoRecordWithoutQuestions ==
    (generateCall.pc = "idle" /\ Len(questions) # NumQuestions)
    => (step = "role" /\ interviews = <<>>)

\* C9: a failed submission puts the session back in the question loop on the
\* last question with its 5 answers as they were and the retry available; a
\* submission that succeeds, first or retried, leaves the session completed.
C9_FailedSubmissionKeepsAnswers ==
    [][(feedbackRes.active /\ ~feedbackRes'.active /\ Mounted)
       => IF feedbackRes.status = 200
          THEN /\ page' = "feedback"
               /\ interviews'[interviewId].status = "completed"
          ELSE /\ step = "submitting" /\ step' = "interview"
               /\ page' = "interview"
               /\ questions' = questions
               /\ Len(questions') = NumQuestions
               /\ \A i \in 1..NumQuestions :
                    /\ questions'[i].answer # Unanswered
                    /\ Trim(questions'[i].answer) # <<>>
               /\ currentQuestion' = NumQuestions - 1
               /\ currentAnswer' = questions'[NumQuestions].answer]_vars

\* a submission failed, the retry succeeded and the session is completed with
\* its five answers
C9_Witness ==
    /\ submissions = 2 /\ page = "feedback"
    /\ interviews[interviewId].status = "completed"
    /\ lastFeedback.result.status = 200
    /\ lastFeedback.request.questions = questions
    /\ Len(answers) = NumQuestions

\* C10: over all submission attempts of a session the interview is set to
\* completed, and its overall score written, at most once.
C10_CompletedWrittenOnce ==
    \A i \in 1..Len(interviews) : interviews[i].updates <= 1

\* the answer records of the interview with the given id
AnswersOf(id) == {k \in 1..Len(answers) : answers[k].interview_id = id}

\* C11: while an interview is in_progress it has no answer records, and once
\* it is completed it has exactly one per question, whatever failed attempts
\* came before.
C11_NoPartialAnswers ==
    \A id \in 1..Len(interviews) :
        IF interviews[id].status = "completed"
        THEN Cardinality(AnswersOf(id)) = NumQuestions
        ELSE AnswersOf(id) = {}

\* the status a handler answers for the oracle's status
SurfacedStatus(oracleStatus) ==
    IF oracleStatus = 200 THEN 200
    ELSE IF oracleStatus \in {429, 402} THEN oracleStatus ELSE 500

\* C12: an oracle 429 and an oracle 402 reach the caller as such, any other
\* failure as the generic error, none is retried without the user, and what
\* the user is shown for a 429 or a 402 differs from what is shown for the
\* other and for a generic error.
C12_RateLimitAndQuotaAreDistinct ==
    /\ lastQuestions.done
       => lastQuestions.result.status = SurfacedStatus(lastQuestions.oracle)
    /\ lastFeedback.done /\ lastFeedback.result.built = <<>>
       => lastFeedback.result.status = SurfacedStatus(lastFeedback.oracle)
    /\ (questionsReq.active \/ questionsRes.active) => generateCall.pc = "invoke"
    /\ (feedbackReq.active \/ feedbackRes.active) => step = "submitting"
    /\ (errorToast.shown /\ errorToast.status \in {429, 402})
       => /\ errorToast.description
               \notin {GenerateErrorDescription(500), SubmitErrorDescription(500)}
          /\ GenerateErrorDescription(429) # GenerateErrorDescription(402)
          /\ SubmitErrorDescription(429) # SubmitErrorDescription(402)

\* the reply is not an array of objects with the four scores
NotInShape(reply) ==
    \/ reply.kind = "unparseable"
    \/ \E i \in 1..Len(reply.evals) :
          \/ ~reply.evals[i].isObj
          \/ ~(IsNum(reply.evals[i].relevance) /\ IsNum(reply.evals[i].clarity)
               /\ IsNum(reply.evals[i].grammar) /\ IsNum(reply.evals[i].confidence))

\* C13: a successful oracle reply whose content is not of the expected shape
\* never makes a handler answer an error: with the database working,
\* generate-feedback answers 200, and generate-questions answers 200.
C13_ParseFailureNeverAnError ==
    /\ (lastFeedback.done /\ lastFeedback.oracle = 200 /\ lastFeedback.fault = "none"
        /\ NotInShape(lastFeedback.reply))
       => lastFeedback.result.status = 200
    /\ (lastQuestions.done /\ lastQuestions.oracle = 200)
       => lastQuestions.result.status = 200

\* C17: a change to hidden in the question loop adds exactly 1 to
\* tabSwitchCount and exactly 5 to the penalty; in the role selection or
\* while submitting it changes neither, and nothing else changes
\* tabSwitchCount.
C17_TabSwitchEffect ==
    [][/\ VisibilityHidden
          => IF step = "interview"
             THEN /\ tabSwitchCount' = tabSwitchCount + 1
                  /\ scorePenalty' = scorePenalty + 5
             ELSE /\ tabSwitchCount' = tabSwitchCount
                  /\ scorePenalty' = scorePenalty
       /\ tabSwitchCount' # tabSwitchCount
          => /\ step = "interview" /\ step' = "interview"
             /\ tabSwitchCount' = tabSwitchCount + 1
             /\ scorePenalty' = scorePenalty + 5
             /\ deviceWarningCount' = deviceWarningCount]_vars

\* two tab switches were counted and 10 points charged for them
C17_Witness ==
    /\ tabSwitchCount = 2 /\ deviceWarningCount = 0 /\ scorePenalty = 10
    /\ showTabWarning /\ step = "interview"

\* C18: within a session tabSwitchCount, deviceWarningCount and the penalty
\* never decrease, whatever the transition, so that they are zero only before
\* the first event of the session.
C18_CountersNeverDecrease ==
    [][/\ tabSwitchCount' >= tabSwitchCount
       /\ deviceWarningCount' >= deviceWarningCount
       /\ scorePenalty' >= scorePenalty]_vars

\* counters above zero after a dismissed warning and a failed submission
C18_Witness ==
    /\ tabSwitchCount > 0 /\ deviceWarningCount > 0 /\ scorePenalty > 0
    /\ ~showDeviceWarning /\ ~showTabWarning
    /\ submissions = 2 /\ errorToast.shown /\ step = "submitting"

\* C19: every question's answer is written once, when the user advances past
\* it: a handleNext never writes the answer of a question that already has one,
\* and nothing else changes an answer.
C19_AnswerWrittenOnce ==
    [][/\ HandleNext => questions[currentQuestion + 1].answer = Unanswered
       /\ \A i \in 1..Len(questions) :
            (Len(questions') = Len(questions)
             /\ questions'[i].answer # questions[i].answer)
                => (i = currentQuestion + 1 /\ questions[i].answer = Unanswered)]_vars

\* getUserMedia rejects for one of the pending calls of startCamera
CameraDenied == \E i \in 1..Len(cameraCalls) : CameraResolve(i, FALSE)

\* no camera, no interval, no classification and no device warning
SamplerOff ==
    /\ ~cameraEnabled /\ ~cameraStream
    /\ ~isDetecting /\ ~detectionInterval /\ leakedIntervals = 0
    /\ timers = <<>> /\ inflight = <<>>
    /\ deviceWarningCount = 0 /\ ~showDeviceWarning

\* C20: when getUserMedia is denied at the start of the interview the session
\* is in the question loop with its 5 questions and the denial changes neither;
\* from then on the camera and the sampler are off, nothing is sampled and no
\* device warning is raised.  The session can still be completed (C20_Witness).
C20_DenialDoesNotBlock ==
    [][/\ CameraDenied =>
            /\ step' = step /\ questions' = questions
            /\ currentQuestion' = currentQuestion
            /\ submissions = 0 => step' = "interview"
       /\ cameraToast' = "denied" =>
            /\ Len(questions') = NumQuestions
            /\ step' \in {"interview", "submitting"}
            /\ SamplerOff']_vars

\* the camera was denied and the session was answered and completed
C20_Witness ==
    /\ cameraToast = "denied"
    /\ page = "feedback"
    /\ Len(interviews) = 1 /\ interviews[1].status = "completed"
    /\ Cardinality(AnswersOf(1)) = NumQuestions
    /\ \A k \in 1..NumQuestions : questions[k].answer = <<"a">>

\* loadModel has finished and left no detector
ModelLoadFailed == ~modelLoading /\ ~detector

\* C21: when loadModel has failed (it has finished and left no detector) the
\* mounted hook reports isModelLoaded, and for the rest of the session the
\* sampler never runs and no device warning is raised: deviceWarningCount is 0
\* and the penalty holds tab switches only.  The session can still be completed
\* (C21_Witness).
C21_ModelLoadFailureDoesNotBlock ==
    ModelLoadFailed =>
        /\ Mounted => isModelLoaded
        /\ ~isDetecting /\ ~detectionInterval /\ leakedIntervals = 0
        /\ inflight = <<>>
        /\ deviceWarningCount = 0 /\ ~showDeviceWarning /\ detectedDevices = <<>>
        /\ lastWarningTime = 0
        /\ scorePenalty = TabSwitchPenalty * tabSwitchCount

\* the model failed to load while the page was up, the camera was granted, and
\* the session was answered and completed
C21_Witness ==
    /\ ModelLoadFailed /\ isModelLoaded
    /\ cameraToast = "enabled"
    /\ page = "feedback"
    /\ Len(interviews) = 1 /\ interviews[1].status = "completed"
    /\ deviceWarningCount = 0

\* the generate-feedback requests sent and not yet returned to submitInterview
InFlight ==
    (IF feedbackReq.active THEN 1 ELSE 0) + (IF feedbackRes.active THEN 1 ELSE 0)

\* C22: at most one generate-feedback request of the session is in flight
\* (sent and not yet returned to submitInterview): while the page is up one is
\* in flight exactly when step is submitting, a submission starts only from
\* step interview with none in flight, and every entry into submitting sends
\* exactly one request.
C22_OneSubmissionInFlight ==
    [][/\ InFlight' <= 1
       /\ Mounted' => (step' = "submitting" <=> InFlight' = 1)
       /\ submissions' # submissions =>
            /\ step = "interview" /\ step' = "submitting"
            /\ InFlight = 0 /\ feedbackReq'.active
            /\ submissions' = submissions + 1
       /\ (step # "submitting" /\ step' = "submitting") =>
            submissions' = submissions + 1
       /\ (feedbackReq'.active /\ feedbackReq' # feedbackReq) =>
            submissions' = submissions + 1]_vars

\* the second entry into submitting, its request in flight
C22_Witness ==
    /\ Mounted /\ step = "submitting"
    /\ submissions = 2 /\ feedbackReq.active /\ ~feedbackRes.active

\* C23 as stated: when every network request returns, a generation attempt
\* ends with isGenerating cleared, and every entry into submitting is followed
\* by the feedback page of the completed interview or by step interview.
\* every entry into submitting ends on the feedback page or back in the question loop
SubmissionEnds ==
    (Mounted /\ step = "submitting")
        ~> \/ page = "feedback" /\ interviews[interviewId].status = "completed"
           \/ Mounted /\ step = "interview"

\* C23 as stated: when every network request returns, a generation attempt
\* ends with isGenerating cleared, and every entry into submitting is followed
\* by the feedback page of the completed interview or by step interview.
C23_GenerationAndSubmissionEnd ==
    /\ isGenerating ~> ~isGenerating
    /\ SubmissionEnds

\* C23 amended: when every network request returns, a generation attempt ends
\* in the role selection with isGenerating cleared or in the question loop
\* (where isGenerating is cleared once getUserMedia has settled), and every
\* entry into submitting is followed by the feedback page of the completed
\* interview or by step interview.
C23_InteractiveStateReached ==
    /\ generateCall.pc = "invoke"
          ~> (\/ step = "role" /\ ~isGenerating
              \/ step = "interview" /\ Len(questions) = NumQuestions)
    /\ [](generateCall.pc = "idle" => ~isGenerating)
    /\ SubmissionEnds

\* a generation has ended, a submission has failed and the session is back in
\* the question loop
C23_Witness ==
    /\ Mounted /\ step = "interview" /\ ~isGenerating
    /\ submissions = 1 /\ errorToast.shown /\ InFlight = 0

\* the question holds an answer that is not blank
IsAnswered(q) == q.answer # Unanswered /\ Trim(q.answer) # <<>>

\* the step moves to the next question or into submitting
Advances ==
    \/ currentQuestion' # currentQuestion
    \/ step # "submitting" /\ step' = "submitting"

\* C24: the current index stays within 0..4 and changes only by +1; every
\* advance (a change of the index or an entry into submitting) needs an answer
\* that is not blank after trimming and records it into the current question;
\* submitting is entered only from the last question, with all 5 questions
\* holding non-blank answers, which are the ones sent.
C24_AdvanceNeedsAnswer ==
    [][/\ currentQuestion' \in 0..(NumQuestions - 1)
       /\ currentQuestion' # currentQuestion =>
            /\ currentQuestion' = currentQuestion + 1
            /\ step = "interview" /\ step' = "interview"
       /\ Advances =>
            /\ Trim(currentAnswer) # <<>>
            /\ Len(questions') = NumQuestions
            /\ questions'[currentQuestion + 1].answer = currentAnswer
            /\ \A k \in 1..NumQuestions :
                 k # currentQuestion + 1 => questions'[k] = questions[k]
       /\ (step # "submitting" /\ step' = "submitting") =>
            /\ currentQuestion = NumQuestions - 1
            /\ \A k \in 1..NumQuestions : IsAnswered(questions'[k])
            /\ feedbackReq'.questions = questions']_vars

\* submitting entered from the last question, five answers recorded
C24_Witness ==
    /\ Mounted /\ step = "submitting" /\ submissions = 1
    /\ currentQuestion = NumQuestions - 1
    /\ \A k \in 1..NumQuestions : IsAnswered(questions[k])
    /\ feedbackReq.active

\* the content parses as a JSON array whose elements are all strings
IsArrayOfStrings(content) ==
    /\ content.kind = "array"
    /\ \A i \in 1..Len(content.elems) : content.elems[i].t = "string"

\* the first 5 entries of the list, the filler question where it has none
PaddedOrCut(list) ==
    [i \in 1..NumQuestions |-> IF i <= Len(list) THEN list[i] ELSE FillerQuestion]

\* C25: a reply that is not a JSON array of strings gives the canned set
\* FallbackSets[seed mod 3]; a parsed list of fewer than 5 strings is padded
\* with the filler question and a longer one is cut to its first 5, in order.
C25_CannedSetOrPaddedList ==
    (lastQuestions.done /\ lastQuestions.oracle = 200)
    => /\ lastQuestions.result.status = 200
       /\ lastQuestions.result.questions =
            IF IsArrayOfStrings(lastQuestions.content)
            THEN PaddedOrCut(lastQuestions.content.elems)
            ELSE FallbackSets[lastQuestions.seed % NumFallbackSets]

\* the lower-cased label is an entry of SUSPICIOUS_OBJECTS
InVocabulary(label) == ToLowerCase(label) \in SuspiciousLabels

\* the frame holds a label of the vocabulary at a score above 0.5
HasSuspiciousLabel(frame) ==
    \E k \in 1..Len(frame) :
        InVocabulary(frame[k].label) /\ frame[k].score > DetectionThreshold

\* the count, the log or the debounce timestamp changes
WarningStateChanges ==
    \/ deviceWarningCount' # deviceWarningCount
    \/ detectedDevices' # detectedDevices
    \/ lastWarningTime' # lastWarningTime

\* C26: one run of detectObjects raises at most one device warning, and only
\* for a frame with a label of the vocabulary at a score above 0.5: a frame
\* without one changes neither deviceWarningCount, the device log nor the
\* debounce timestamp.
C26_OneWarningPerSuspiciousFrame ==
    [][/\ deviceWarningCount' \in {deviceWarningCount, deviceWarningCount + 1}
       /\ \A i \in 1..Len(inflight) :
            (DetectionComplete(i) /\ ~HasSuspiciousLabel(inflight[i].predictions))
                => ~WarningStateChanges
       /\ WarningStateChanges =>
            /\ deviceWarningCount' = deviceWarningCount + 1
            /\ showDeviceWarning'
            /\ \E i \in 1..Len(inflight) :
                 /\ DetectionComplete(i)
                 /\ HasSuspiciousLabel(inflight[i].predictions)]_vars

\* one warning, raised by the frame that holds three suspicious items of two
\* labels: two entries in the log
C26_Witness ==
    /\ deviceWarningCount = 1 /\ showDeviceWarning
    /\ Len(detectedDevices) = 2
    /\ detectedDevices[1].class = Laptop /\ detectedDevices[1].score = 80
    /\ detectedDevices[2].class = CellPhone
    /\ lastWarningTime = now /\ inflight = <<>>

\* the interval runs and detectObjects passes its guards
SamplingPossible ==
    /\ detectionInterval \/ leakedIntervals > 0
    /\ detector /\ Mounted /\ step = "interview" /\ cameraEnabled

\* C27: a classification that throws leaves deviceWarningCount, the device
\* log, the debounce timestamp, the warning banner and the penalty as they
\* were and does not stop the interval, so that the next tick of the interval
\* samples again.
C27_ClassificationErrorIsSwallowed ==
    [][\A i \in 1..Len(inflight) :
         (DetectionComplete(i) /\ inflight[i].failed)
            => /\ UNCHANGED <<deviceWarningCount, detectedDevices, lastWarningTime,
                              showDeviceWarning, scorePenalty>>
               /\ UNCHANGED <<detectionInterval, isDetecting, leakedIntervals>>
               /\ SamplingPossible => SamplingPossible'
               /\ Len(inflight') = Len(inflight) - 1]_vars

\* after one warning, the classification of a frame that would raise the next
\* one has thrown and is about to be handled
C27_Witness ==
    /\ Len(inflight) = 1 /\ inflight[1].failed
    /\ HasSuspiciousLabel(inflight[1].predictions)
    /\ DebouncePassed(now, lastWarningTime)
    /\ deviceWarningCount = 1 /\ scorePenalty = DevicePenalty
    /\ SamplingPossible

\* C28: when the oracle's sub-scores are all within 0..100, the value 100
\* included, and the database has no fault of its own, the answer records and
\* the overall score fit their columns: the records are inserted, the interview
\* is updated and the handler answers 200.
C28_ScoresFitTheirColumns ==
    (lastFeedback.done /\ lastFeedback.oracle = 200 /\ lastFeedback.fault = "none"
     /\ InRangeEvaluations(LastEvaluations))
    => /\ lastFeedback.result.status = 200
       /\ lastFeedback.result.rows = lastFeedback.result.built
       /\ lastFeedback.result.updated
       /\ interviews[lastFeedback.request.interviewId].status = "completed"

\* a supplied number clamped to 0..100, the fallback otherwise
StoredAs(x, d) == IF IsNum(x) THEN MathMin(ScoreMax, MathMax(0, x.v)) ELSE d

\* C29: a sub-score the oracle supplied as a number is stored clamped to
\* 0..100, a 0 as 0; the fallback values 70/70/75/65 are stored only where the
\* oracle supplied no number.
C29_SuppliedScoresAreStoredClamped ==
    (lastFeedback.done /\ lastFeedback.oracle = 200)
    => LET built == lastFeedback.result.built
       IN  \A i \in 1..Len(built) :
             /\ built[i].relevance_score
                  = StoredAs(LastEvaluations[i].relevance, FallbackRelevance)
             /\ built[i].clarity_score
                  = StoredAs(LastEvaluations[i].clarity, FallbackClarity)
             /\ built[i].grammar_score
                  = StoredAs(LastEvaluations[i].grammar, FallbackGrammar)
             /\ built[i].confidence_score
                  = StoredAs(LastEvaluations[i].confidence, FallbackConfidence)

\* the sum of the four stored sub-scores over the records
StoredTotal(rows) ==
    SumSeq([i \in 1..Len(rows) |->
        rows[i].relevance_score + rows[i].clarity_score
        + rows[i].grammar_score + rows[i].confidence_score])

\* each record holds the four numbers the oracle supplied for its question
RecordsHoldSupplied(rows, evals) ==
    \A i \in 1..Len(rows) :
        /\ rows[i].relevance_score = evals[i].relevance.v
        /\ rows[i].clarity_score = evals[i].clarity.v
        /\ rows[i].grammar_score = evals[i].grammar.v
        /\ rows[i].confidence_score = evals[i].confidence.v

\* C30: the overall score written is the penalty-adjusted mean, rounded to one
\* decimal, of the per-answer averages of the N answer records stored for the N
\* questions, also when the oracle returned more than N evaluations.  The
\* evaluations are taken in range and the records to hold what the oracle
\* supplied for their questions, so that only surplus entries can tell the two
\* apart.
C30_OverallIsMeanOfStoredRecords ==
    (lastFeedback.done /\ lastFeedback.result.updated
     /\ InRangeEvaluations(LastEvaluations)
     /\ RecordsHoldSupplied(lastFeedback.result.rows, LastEvaluations))
    => /\ Len(lastFeedback.result.rows) = Len(lastFeedback.request.questions)
       /\ IsRoundedScore(lastFeedback.result.overall.v,
                         StoredTotal(lastFeedback.result.rows),
                         4 * Len(lastFeedback.result.rows),
                         lastFeedback.request.scorePenalty)

(***************************************************************************)
(* Properties of the camera and the sampler (SpecCamera).                  *)
(***************************************************************************)
\* C14: once the camera has been stopped by a submission or by leaving the
\* page, and until it is started again (which neither state allows), no
\* camera stream is held and no sampling interval runs, whatever was pending
\* when it was stopped.
C14_NothingRunsAfterStop ==
    (page = "home" \/ step = "submitting")
    => /\ ~cameraStream /\ leakedStreams = 0
       /\ ~detectionInterval /\ leakedIntervals = 0

\* the camera streams whose tracks run, and the intervals that run
LiveStreams == (IF cameraStream THEN 1 ELSE 0) + leakedStreams
LiveIntervals == (IF detectionInterval THEN 1 ELSE 0) + leakedIntervals

\* C15: at any time at most one camera stream is live and at most one
\* sampling interval runs, also when the camera is started while an earlier
\* start is still in progress.
C15_OneStreamOneInterval ==
    LiveStreams <= 1 /\ LiveIntervals <= 1

(***************************************************************************)
(* Properties of the sampler when the camera is never stopped              *)
(* (SpecSampler).                                                          *)
(***************************************************************************)
\* C16: once the camera has been acquired and the detection model has loaded
\* successfully, in either order, the sampling interval eventually runs.
C16_SamplingEventuallyStarts ==
    (cameraStream /\ isModelLoaded /\ detector) ~> detectionInterval

====
